---- MODULE Spec2Model ----
(***************************************************************************)
(* Projection engines of the retirement calculators.                       *)
(*                                                                         *)
(*   src/Internal_Calc.py          compute_projection_one_line, the        *)
(*                                 "All Models" loop                       *)
(*   src/retirement_calculator.py  compute_projection and its inner        *)
(*                                 project                                 *)
(*                                                                         *)
(* Numbers.  The source computes in binary floating point.  The model      *)
(* computes in decimal fixed point, rounding every product and quotient    *)
(* down to the next representable value, as a float operation rounds to    *)
(* the nearest one:                                                        *)
(*   - an amount of money is an integer number of cents;                   *)
(*   - a rate or a growth factor is an integer number of 1/Scale units     *)
(*     (0.0819 is 8190000, 1.0 is Scale);                                  *)
(*   - a percentage is an integer number of 1/PctScale percent (3.0        *)
(*     percent is 30000).                                                  *)
(* A value the fixed point represents exactly (0, 1, a whole number of     *)
(* cents) is computed exactly, as it is in floating point.                 *)
(***************************************************************************)
EXTENDS Integers, Sequences, FiniteSets, TLC

\* One unit of a rate or factor is 1/Scale = 1/Limb^2.
Limb == 10 ^ 4
Scale == Limb * Limb
\* One unit of a percentage is 1/PctScale percent.
PctScale == 10 ^ 4

----------------------------------------------------------------------------
(* Arithmetic of the source's float expressions.                           *)

\* a * b for a factor b: floor(a * b / Scale), computed limb by limb so that
\* no intermediate product is wider than the result.
MulDiv(a, b) ==
    LET a1 == a \div Limb
        a0 == a % Limb
        b1 == b \div Limb
        b0 == b % Limb
        u == a1 * b0
        v == a0 * b1
        w == (a0 * b0) \div Limb
    IN  a1 * b1 + (u \div Limb) + (v \div Limb)
        + (((u % Limb) + (v % Limb) + w) \div Limb)

\* The first n decimal digits of r / b, for 0 <= r < b, as an integer.
RECURSIVE FracDigits(_, _, _)
FracDigits(r, b, n) ==
    IF n = 0 THEN 0
    ELSE ((r * 10) \div b) * 10 ^ (n - 1) + FracDigits((r * 10) % b, b, n - 1)

\* a / b for two factors, b # 0: floor(a * Scale / b), by long division.
DivF(a, b) ==
    LET n == IF b < 0 THEN 0 - a ELSE a
        d == IF b < 0 THEN 0 - b ELSE b
    IN  (n \div d) * Scale + FracDigits(n % d, d, 8)

\* p / 100.0 for a percentage p: the rate.
FromPercent(p) == p * ((Scale \div PctScale) \div 100)

\* x ** k for a whole exponent k >= 0, by halving the exponent.
RECURSIVE Pow(_, _)
Pow(x, k) ==
    IF k = 0 THEN Scale
    ELSE IF k = 1 THEN x
    ELSE LET h == Pow(x, k \div 2)
         IN  IF k % 2 = 0 THEN MulDiv(h, h) ELSE MulDiv(MulDiv(h, h), x)

\* The largest g in lo..hi with g ** n <= x (lo is such a g).
RECURSIVE RootSearch(_, _, _, _)
RootSearch(x, n, lo, hi) ==
    IF lo >= hi THEN lo
    ELSE LET mid == (lo + hi + 1) \div 2
         IN  IF Pow(mid, n) <= x
             THEN RootSearch(x, n, mid, hi)
             ELSE RootSearch(x, n, lo, mid - 1)

\* x ** (1 / n) for x >= 0 and a whole n >= 1: the largest representable g
\* with g ** n <= x.  Root(Scale, n) = Scale: 1.0 ** anything is exactly 1.0.
Root(x, n) ==
    IF x >= Scale
    THEN RootSearch(x, n, Scale, Scale + (x - Scale) \div n + 1)
    ELSE RootSearch(x, n, 0, Scale)

\* F(v), with v evaluated once, before F is.
Then(v, F(_)) == LET f[t \in {v}] == F(t) IN f[v]

\* [v] * n
Repeat(v, n) == [i \in 1 .. n |-> v]

----------------------------------------------------------------------------
(* src/Internal_Calc.py                                                    *)

\* MODEL_OPTIONS: the model names and their annual returns.
MODEL_OPTIONS ==
    ("Core" :> 8780000) @@ ("Balanced Growth" :> 9880000)
    @@ ("Growth" :> 10680000) @@ ("Aggressive" :> 11760000)

\* list(MODEL_OPTIONS.keys()), in the order of the dictionary.
MODEL_NAMES == <<"Core", "Balanced Growth", "Growth", "Aggressive">>

\* CONTRIB_FREQ_OPTIONS: the pay periods per year the page offers.
CONTRIB_FREQ_OPTIONS == {24, 26}

\* Variant: every installment is the whole annual amount.
build_pay_period_schedule_undivided(annual_amount, periods_per_year) ==
    IF periods_per_year <= 0 THEN << >>
    ELSE Repeat(annual_amount, periods_per_year)

build_pay_period_schedule(annual_amount, periods_per_year) ==
    IF periods_per_year <= 0 THEN << >>
    ELSE LET amt == annual_amount \div periods_per_year
         IN  Repeat(amt, periods_per_year)

\* Variant: total *= (1.0 - r_period).
RECURSIVE pay_period_loop_shrinking(_, _, _, _, _)
pay_period_loop_shrinking(total, contrib_schedule, r_period, lo, hi) ==
    IF lo > hi THEN total
    ELSE IF lo = hi
         THEN MulDiv(total, Scale - r_period) + contrib_schedule[lo]
         ELSE LET mid == (lo + hi) \div 2
              IN  Then(pay_period_loop_shrinking(total, contrib_schedule,
                                                 r_period, lo, mid),
                       LAMBDA t : pay_period_loop_shrinking(
                                      t, contrib_schedule, r_period, mid + 1, hi))

\* Variant: total += c; total *= (1.0 + r_period), the deposit before the
\* growth of its period.
RECURSIVE pay_period_loop_deposit_first(_, _, _, _, _)
pay_period_loop_deposit_first(total, contrib_schedule, r_period, lo, hi) ==
    IF lo > hi THEN total
    ELSE IF lo = hi
         THEN MulDiv(total + contrib_schedule[lo], Scale + r_period)
         ELSE LET mid == (lo + hi) \div 2
              IN  Then(pay_period_loop_deposit_first(total, contrib_schedule,
                                                     r_period, lo, mid),
                       LAMBDA t : pay_period_loop_deposit_first(
                                      t, contrib_schedule, r_period,
                                      mid + 1, hi))

\* for c in contrib_schedule: total *= (1.0 + r_period); total += c
\* The value of total after the iterations lo..hi of the loop, in order:
\* those of lo..mid and then those of mid+1..hi.
RECURSIVE pay_period_loop(_, _, _, _, _)
pay_period_loop(total, contrib_schedule, r_period, lo, hi) ==
    IF lo > hi THEN total
    ELSE IF lo = hi
         THEN MulDiv(total, Scale + r_period) + contrib_schedule[lo]
         ELSE LET mid == (lo + hi) \div 2
              IN  Then(pay_period_loop(total, contrib_schedule, r_period, lo, mid),
                       LAMBDA t : pay_period_loop(t, contrib_schedule, r_period,
                                                  mid + 1, hi))

\* Variant: current_salary * (1 + annual_contrib_rate).
annual_contrib_amount_plus_one(salary, salary_growth, annual_contrib_rate, yr) ==
    LET current_salary == MulDiv(salary, Pow(Scale + salary_growth, yr - 1))
    IN  MulDiv(current_salary, Scale + annual_contrib_rate)

\* Variant: the salary of the year after, (1 + salary_growth) ** yr.
annual_contrib_amount_next_year(salary, salary_growth, annual_contrib_rate, yr) ==
    LET current_salary == MulDiv(salary, Pow(Scale + salary_growth, yr))
    IN  MulDiv(current_salary, annual_contrib_rate)

\* annual_contrib_amount of year yr (yr = 1..years).
annual_contrib_amount(salary, salary_growth, annual_contrib_rate, yr) ==
    LET current_salary == MulDiv(salary, Pow(Scale + salary_growth, yr - 1))
    IN  MulDiv(current_salary, annual_contrib_rate)

\* Variant: the salary grows at the period rate of the return instead of the
\* salary growth rate.
RECURSIVE year_loop_return_grown_salary(_, _, _, _, _, _, _)
year_loop_return_grown_salary(init, yr, age, salary, salary_growth, annual_contrib_rate, per) ==
    IF yr <= 0 THEN init
    ELSE LET amount == annual_contrib_amount(salary, per.r_period,
                                             annual_contrib_rate, yr)
             contrib_schedule == build_pay_period_schedule(amount, per.periods_per_year)
             iteration(st) ==
                 Then(pay_period_loop(st.total, contrib_schedule, per.r_period,
                                      1, Len(contrib_schedule)),
                      LAMBDA total :
                          [total    |-> total,
                           ages     |-> Append(st.ages, age + yr),
                           vals     |-> Append(st.vals, total),
                           contribs |-> Append(st.contribs, amount)])
         IN  Then(year_loop_return_grown_salary(init, yr - 1, age, salary,
                                                salary_growth,
                                                annual_contrib_rate, per),
                  iteration)

\* for yr in range(1, years + 1): ...  The variables [total, ages, vals] of
\* the loop after iteration yr (yr = 0: before the loop, from init); contribs
\* records the annual_contrib_amount of each iteration (it is not part of
\* the returned frame).
year_iteration(st, yr, age, salary, salary_growth, annual_contrib_rate, per) ==
    LET amount == annual_contrib_amount(salary, salary_growth, annual_contrib_rate, yr)
        contrib_schedule == build_pay_period_schedule(amount, per.periods_per_year)
    IN  Then(pay_period_loop(st.total, contrib_schedule, per.r_period,
                             1, Len(contrib_schedule)),
             LAMBDA total :
                 [total    |-> total,
                  ages     |-> Append(st.ages, age + yr),
                  vals     |-> Append(st.vals, total),
                  contribs |-> Append(st.contribs, amount)])

\* The iterations lo..hi of the loop in order, from the variables st; the
\* range is halved to keep the evaluation shallow.
RECURSIVE year_range(_, _, _, _, _, _, _, _)
year_range(st, lo, hi, age, salary, salary_growth, annual_contrib_rate, per) ==
    IF lo > hi THEN st
    ELSE IF lo = hi
    THEN year_iteration(st, lo, age, salary, salary_growth, annual_contrib_rate, per)
    ELSE LET mid == (lo + hi) \div 2
         IN  Then(year_range(st, lo, mid, age, salary, salary_growth, annual_contrib_rate, per),
                  LAMBDA half : year_range(half, mid + 1, hi, age, salary, salary_growth, annual_contrib_rate, per))

year_loop(init, yr, age, salary, salary_growth, annual_contrib_rate, per) ==
    year_range(init, 1, yr, age, salary, salary_growth, annual_contrib_rate, per)

\* Variant: the salary is not looked at.
one_line_single_point_age_only(age, target_age, salary) ==
    age >= target_age

\* if age >= target_age or salary <= 0: the single-point frame is returned.
one_line_single_point(age, target_age, salary) ==
    age >= target_age \/ salary <= 0

\* r_period = (1.0 + float(model_return)) ** (1.0 / periods_per_year) - 1.0
period_rate(model_return, periods_per_year) ==
    Root(Scale + model_return, periods_per_year) - Scale

\* Variant: vals = [], the starting balance is not recorded.
one_line_start_unrecorded(age, balance) ==
    LET total == balance
    IN  [total |-> total, ages |-> <<age>>, vals |-> << >>,
         contribs |-> << >>]

\* total = float(balance); ages = [age]; vals = [total]
one_line_start(age, balance) ==
    LET total == balance
    IN  [total |-> total, ages |-> <<age>>, vals |-> <<total>>,
         contribs |-> << >>]

\* compute_projection_one_line(age, salary, balance, cfg, model_return), for
\* cfg["contributions_per_year"] >= 1 and model_return >= -1.  The frame is
\* [age, value]; contribs is the recorded contribution of each year.
compute_projection_one_line(age, salary, balance, cfg, model_return) ==
    LET target_age == cfg.target_age
    IN  IF one_line_single_point(age, target_age, salary)
        THEN [age |-> <<age>>, value |-> <<balance>>, contribs |-> << >>]
        ELSE LET years == target_age - age
                 salary_growth == FromPercent(cfg.salary_growth_rate_pct)
                 employee_rate == FromPercent(cfg.employee_contrib_rate_pct)
                 employer_rate == FromPercent(cfg.employer_contrib_rate_pct)
                 annual_contrib_rate == employee_rate + employer_rate
                 periods_per_year == cfg.contributions_per_year
                 r_period == period_rate(model_return, periods_per_year)
                 st == year_loop(one_line_start(age, balance),
                                 years, age, salary, salary_growth,
                                 annual_contrib_rate,
                                 [periods_per_year |-> periods_per_year,
                                  r_period |-> r_period])
             IN  [age |-> st.ages, value |-> st.vals, contribs |-> st.contribs]

----------------------------------------------------------------------------
(* src/retirement_calculator.py                                            *)

\* The constants of compute_projection.
target_age == 65
salary_growth_rate == 3000000
contribution_rate == 7800000 + 4600000
r_no_help == 8190000
r_help == r_no_help + 3320000
\* The 12 of (1 + rate) ** (1 / 12), monthly_rate ** 12 and yearly / 12.
months == 12

\* for yearly in contribs: ...  The variables [total, out] of the loop after
\* it consumed contribs (the last iteration applied to the state after the
\* iterations before it); yearly records the amounts the loop consumed.
RECURSIVE project_loop(_, _, _, _)
project_loop(init, contribs, monthly_factor, contrib_multiplier) ==
    IF contribs = << >> THEN init
    ELSE LET n == Len(contribs)
             yearly == contribs[n]
             monthly_contrib == yearly \div months
             iteration(st) ==
                 Then(MulDiv(st.total, monthly_factor)
                      + MulDiv(monthly_contrib, contrib_multiplier),
                      LAMBDA total :
                          [total  |-> total,
                           out    |-> Append(st.out, total),
                           yearly |-> Append(st.yearly, yearly)])
         IN  Then(project_loop(init, SubSeq(contribs, 1, n - 1),
                               monthly_factor, contrib_multiplier),
                  iteration)

\* Variant: out, not cut.
Truncate_not_cut(out, num_points) == out

\* out[:num_points]
Truncate(out, num_points) ==
    SubSeq(out, 1, IF Len(out) < num_points THEN Len(out) ELSE num_points)

\* project(start, contribs, rate), a closure over num_points.  The division
\* (monthly_factor - 1) / (monthly_rate - 1) raises ZeroDivisionError when
\* monthly_rate is 1.0: raised tells whether it did.
project(start, contribs, rate, num_points) ==
    LET total == start
        monthly_rate == Root(Scale + rate, months)
        monthly_factor == Pow(monthly_rate, months)
    IN  IF monthly_rate - Scale = 0
        THEN [raised |-> TRUE, out |-> << >>, yearly |-> << >>]
        ELSE LET contrib_multiplier == DivF(monthly_factor - Scale,
                                            monthly_rate - Scale)
                 st == project_loop([total |-> total, out |-> <<start>>,
                                     yearly |-> << >>],
                                    contribs, monthly_factor, contrib_multiplier)
             IN  [raised |-> FALSE,
                  out    |-> Truncate(st.out, num_points),
                  yearly |-> st.yearly]

\* [salary * ((1 + salary_growth_rate) ** yr) for yr in range(num_points)]
salaries_list(salary, num_points) ==
    [i \in 1 .. num_points |->
        MulDiv(salary, Pow(Scale + salary_growth_rate, i - 1))]

\* [s * contribution_rate for s in salaries]
annual_contribs_list(salaries) ==
    [i \in 1 .. Len(salaries) |-> MulDiv(salaries[i], contribution_rate)]

\* list(range(lo, hi))
Range(lo, hi) == [i \in 1 .. (hi - lo) |-> lo + i - 1]

\* compute_projection(age, salary, balance).  raised tells whether a call of
\* project raised; the frame is [age, baseline, with_help]; the yearly_*
\* fields record the contributions each scenario's loop consumed.
compute_projection(age, salary, balance) ==
    IF age >= target_age \/ salary <= 0
    THEN [raised |-> FALSE, age |-> <<age>>,
          baseline |-> <<balance>>, with_help |-> <<balance>>,
          yearly_baseline |-> << >>, yearly_with_help |-> << >>]
    ELSE LET years == target_age - age
             num_points == years + 1
             salaries == salaries_list(salary, num_points)
             annual_contribs == annual_contribs_list(salaries)
             base == project(balance, annual_contribs, r_no_help, num_points)
             help == project(balance, annual_contribs, r_help, num_points)
         IN  [raised |-> base.raised \/ help.raised,
              age |-> Range(age, age + num_points),
              baseline |-> base.out, with_help |-> help.out,
              yearly_baseline |-> base.yearly,
              yearly_with_help |-> help.yearly]

----------------------------------------------------------------------------
(* The memoisation of the two engines (@st.cache_data): a store from the   *)
(* hash key of a call to the frame the call returned.                      *)

VARIABLES
    pc,                \* "ready": the call of args is pending; "done": it returned
    fn,                \* the entry point called
    args,              \* the arguments of the call
    ret,               \* what the call returned
    cache_one_line,    \* the store of compute_projection_one_line
    cache_projection,  \* the store of compute_projection
    hits,              \* how many lookups of the last call the store answered
    session_state,     \* st.session_state of the script that runs
    submissions        \* the rows inserted into the table "submissions"

vars == <<pc, fn, args, ret, cache_one_line, cache_projection, hits,
          session_state, submissions>>

\* Variant: the key leaves out model_return.
one_line_key_without_return(age, salary, balance, cfg, model_return) ==
    <<age, salary, balance, cfg>>

\* The key st.cache_data hashes a call of compute_projection_one_line to: all
\* five arguments, the dictionary cfg by its content.
one_line_key(age, salary, balance, cfg, model_return) ==
    <<age, salary, balance, cfg, model_return>>

\* The key of a call of compute_projection.
projection_key(age, salary, balance) == <<age, salary, balance>>

\* A call of the memoised compute_projection_one_line on the store cache:
\* the returned frame, the store after the call and whether the store
\* answered it.
cached_one_line(cache, age, salary, balance, cfg, model_return) ==
    LET k == one_line_key(age, salary, balance, cfg, model_return)
    IN  IF k \in DOMAIN cache
        THEN [cache |-> cache, ret |-> cache[k], hit |-> 1]
        ELSE Then(compute_projection_one_line(age, salary, balance, cfg,
                                              model_return),
                  LAMBDA v : [cache |-> (k :> v) @@ cache, ret |-> v,
                              hit |-> 0])

\* A call of the memoised compute_projection.  A call that raises stores
\* nothing.
cached_projection(cache, age, salary, balance) ==
    LET k == projection_key(age, salary, balance)
    IN  IF k \in DOMAIN cache
        THEN [cache |-> cache, ret |-> cache[k], hit |-> 1]
        ELSE Then(compute_projection(age, salary, balance),
                  LAMBDA v : [cache |-> IF v.raised THEN cache
                                        ELSE (k :> v) @@ cache,
                              ret |-> v, hit |-> 0])

\* for name, r in MODEL_OPTIONS.items(): dfs[name] = compute_projection_one_line(...)
\* The store, dfs and the number of answers of the store after the first n
\* iterations of the loop, from the store cache.
RECURSIVE all_models_loop(_, _, _, _)
all_models_loop(n, cache, a, cfg) ==
    IF n <= 0 THEN [cache |-> cache, dfs |-> << >>, hits |-> 0]
    ELSE LET name == MODEL_NAMES[n]
             iteration(st) ==
                 Then(cached_one_line(st.cache, a.age, a.salary, a.balance, cfg,
                                      MODEL_OPTIONS[name]),
                      LAMBDA c : [cache |-> c.cache,
                                  dfs |-> (name :> c.ret) @@ st.dfs,
                                  hits |-> st.hits + c.hit])
         IN  Then(all_models_loop(n - 1, cache, a, cfg), iteration)

----------------------------------------------------------------------------
(* Spec: one call of an engine on arguments drawn from bounded sets.       *)

\* The longest projection, in years.
MaxYears == 3

TargetAges == {65, 70}
Salaries == {-100, 0, 8400000}
Balances == {-100000, 0, 7650000}
Returns == {-5000000, 0, 8780000, 11760000}
Cfgs ==
    [target_age : TargetAges,
     salary_growth_rate_pct : {0, 30000},
     employee_contrib_rate_pct : {0, 78000},
     employer_contrib_rate_pct : {0, 46000},
     contributions_per_year : {1} \cup CONTRIB_FREQ_OPTIONS]

AgesFor(target) == (target - MaxYears) .. (target + 1)

OneLineArgs ==
    {a \in [age : UNION {AgesFor(t) : t \in TargetAges}, salary : Salaries,
            balance : Balances, cfg : Cfgs, model_return : Returns] :
        a.age \in AgesFor(a.cfg.target_age)}

AllModelsArgs ==
    {a \in [age : UNION {AgesFor(t) : t \in TargetAges}, salary : Salaries,
            balance : Balances, cfg : Cfgs] :
        a.age \in AgesFor(a.cfg.target_age)}

ProjectionArgs ==
    [age : AgesFor(target_age), salary : Salaries, balance : Balances]

\* One year of twelve equal deposits: the start, the year's contribution
\* and the annual rate.
SingleYearArgs ==
    [start : {0, 7650000}, yearly : {120000, 1041600},
     rate : {0, 8190000, 11510000, 50000000, 100000000}]

NoRet == [none |-> TRUE]

Init ==
    /\ pc = "ready"
    /\ \/ fn = "compute_projection_one_line" /\ args \in OneLineArgs
       \/ fn = "all_models" /\ args \in AllModelsArgs
       \/ fn = "compute_projection" /\ args \in ProjectionArgs
       \/ fn = "single_year" /\ args \in SingleYearArgs
    /\ ret = NoRet
    /\ cache_one_line = << >>
    /\ cache_projection = << >>
    /\ hits = 0
    /\ session_state = NoRet
    /\ submissions = << >>

\* df = compute_projection_one_line(age, salary, balance, cfg, model_return)
OneLine ==
    /\ pc = "ready" /\ fn = "compute_projection_one_line"
    /\ LET c == cached_one_line(cache_one_line, args.age, args.salary,
                                args.balance, args.cfg, args.model_return)
       IN  /\ ret' = c.ret
           /\ cache_one_line' = c.cache
           /\ hits' = c.hit
    /\ pc' = "done"
    /\ UNCHANGED <<fn, args, cache_projection>>
    /\ UNCHANGED <<session_state, submissions>>

\* The "All Models" branch: one frame per model of MODEL_OPTIONS.
AllModels ==
    /\ pc = "ready" /\ fn = "all_models"
    /\ LET st == all_models_loop(Len(MODEL_NAMES), cache_one_line, args,
                                 args.cfg)
       IN  /\ ret' = st.dfs
           /\ cache_one_line' = st.cache
           /\ hits' = st.hits
    /\ pc' = "done"
    /\ UNCHANGED <<fn, args, cache_projection>>
    /\ UNCHANGED <<session_state, submissions>>

\* df = compute_projection(age, salary, balance)
Projection ==
    /\ pc = "ready" /\ fn = "compute_projection"
    /\ LET c == cached_projection(cache_projection, args.age, args.salary,
                                  args.balance)
       IN  /\ ret' = c.ret
           /\ cache_projection' = c.cache
           /\ hits' = c.hit
    /\ pc' = "done"
    /\ UNCHANGED <<fn, args, cache_one_line>>
    /\ UNCHANGED <<session_state, submissions>>

\* The cfg under which compute_projection_one_line deposits yearly in months
\* equal installments over one year: the whole salary is contributed.
SingleYearCfg ==
    [target_age |-> target_age, salary_growth_rate_pct |-> 0,
     employee_contrib_rate_pct |-> 100 * PctScale, employer_contrib_rate_pct |-> 0,
     contributions_per_year |-> months]

\* One year computed both ways: closed is project's closed-form step, iter
\* is the per-period loop of compute_projection_one_line.
SingleYear ==
    /\ pc = "ready" /\ fn = "single_year"
    /\ ret' = [closed |-> project(args.start, <<args.yearly>>, args.rate, 2),
               iter   |-> compute_projection_one_line(
                              target_age - 1, args.yearly, args.start,
                              SingleYearCfg, args.rate)]
    /\ pc' = "done"
    /\ UNCHANGED <<fn, args, cache_one_line, cache_projection, hits>>
    /\ UNCHANGED <<session_state, submissions>>

Next == OneLine \/ AllModels \/ Projection \/ SingleYear

Spec == Init /\ [][Next]_vars

----------------------------------------------------------------------------
(* SpecCache: the reruns of the two scripts.  Every rerun calls a memoised *)
(* engine on the inputs of the session; the stores outlive the rerun.      *)

\* The most entries the two stores hold together.
MaxCache == 4

CacheCfgs ==
    {c \in Cfgs : /\ c.target_age = target_age
                  /\ c.salary_growth_rate_pct > 0
                  /\ c.employee_contrib_rate_pct > 0
                  /\ c.employer_contrib_rate_pct > 0
                  /\ c.contributions_per_year \in CONTRIB_FREQ_OPTIONS}

CacheAllModelsArgs ==
    [age : {target_age - 1}, salary : {8400000}, balance : {7650000},
     cfg : CacheCfgs]

CacheOneLineArgs ==
    [age : {target_age - 1}, salary : {8400000}, balance : {7650000},
     cfg : CacheCfgs,
     model_return : {MODEL_OPTIONS["Core"], MODEL_OPTIONS["Aggressive"]}]

CacheProjectionArgs ==
    [age : {target_age - 1}, salary : {8400000}, balance : {0, 7650000}]

CacheSize(one_line, projection) ==
    Cardinality(DOMAIN one_line) + Cardinality(DOMAIN projection)

InitCache ==
    /\ pc = "ready"
    /\ fn = "none"
    /\ args = NoRet
    /\ ret = NoRet
    /\ cache_one_line = << >>
    /\ cache_projection = << >>
    /\ hits = 0
    /\ session_state = NoRet
    /\ submissions = << >>

\* A rerun with one model selected.
RerunOneLine ==
    \E a \in CacheOneLineArgs :
        LET c == cached_one_line(cache_one_line, a.age, a.salary, a.balance,
                                 a.cfg, a.model_return)
        IN  /\ CacheSize(c.cache, cache_projection) <= MaxCache
            /\ fn' = "compute_projection_one_line"
            /\ args' = a
            /\ ret' = c.ret
            /\ cache_one_line' = c.cache
            /\ hits' = c.hit
            /\ pc' = "done"
            /\ UNCHANGED cache_projection
            /\ UNCHANGED <<session_state, submissions>>

\* A rerun with "All Models" selected.
RerunAllModels ==
    \E a \in CacheAllModelsArgs :
        LET st == all_models_loop(Len(MODEL_NAMES), cache_one_line, a, a.cfg)
        IN  /\ CacheSize(st.cache, cache_projection) <= MaxCache
            /\ fn' = "all_models"
            /\ args' = a
            /\ ret' = st.dfs
            /\ cache_one_line' = st.cache
            /\ hits' = st.hits
            /\ pc' = "done"
            /\ UNCHANGED cache_projection
            /\ UNCHANGED <<session_state, submissions>>

\* A rerun of retirement_calculator.
RerunProjection ==
    \E a \in CacheProjectionArgs :
        LET c == cached_projection(cache_projection, a.age, a.salary,
                                   a.balance)
        IN  /\ CacheSize(cache_one_line, c.cache) <= MaxCache
            /\ fn' = "compute_projection"
            /\ args' = a
            /\ ret' = c.ret
            /\ cache_projection' = c.cache
            /\ hits' = c.hit
            /\ pc' = "done"
            /\ UNCHANGED cache_one_line
            /\ UNCHANGED <<session_state, submissions>>

NextCache == RerunOneLine \/ RerunAllModels \/ RerunProjection

SpecCache == InitCache /\ [][NextCache]_vars

----------------------------------------------------------------------------
(* Text and optional floats of the two scripts' widgets.  A text is the    *)
(* sequence of its characters.  A float a widget yields is a record:       *)
(* kind "float" with its value v in cents, kind "nan" for float('nan'),    *)
(* kind "None" for None.                                                   *)

None == [kind |-> "None", v |-> 0]
NaN == [kind |-> "nan", v |-> 0]
Num(n) == [kind |-> "float", v |-> n]

\* x <= 0 and x > 0 for a float x: every comparison with nan is False.
LeqZero(x) == x.kind = "float" /\ x.v <= 0
GtZero(x) == x.kind = "float" /\ x.v > 0

LowerLetters == <<"a", "b", "c", "d", "e", "f", "g", "h", "i", "j", "k", "l", "m", "n", "o", "p", "q", "r", "s", "t", "u", "v", "w", "x", "y", "z">>
UpperLetters == <<"A", "B", "C", "D", "E", "F", "G", "H", "I", "J", "K", "L", "M", "N", "O", "P", "Q", "R", "S", "T", "U", "V", "W", "X", "Y", "Z">>
Digits == <<"0", "1", "2", "3", "4", "5", "6", "7", "8", "9">>

LowerSet == {LowerLetters[i] : i \in 1 .. Len(LowerLetters)}
UpperSet == {UpperLetters[i] : i \in 1 .. Len(UpperLetters)}
DigitSet == {Digits[i] : i \in 1 .. Len(Digits)}

IsLetter(c) == c \in LowerSet \/ c \in UpperSet
IsDigit(c) == c \in DigitSet
\* The place of c in letters, which holds it.
IndexIn(c, letters) == CHOOSE i \in 1 .. Len(letters) : letters[i] = c
ToLower(c) == IF c \in UpperSet THEN LowerLetters[IndexIn(c, UpperLetters)] ELSE c
ToUpper(c) == IF c \in LowerSet THEN UpperLetters[IndexIn(c, LowerLetters)] ELSE c

\* s.replace(",", "")
RECURSIVE RemoveCommas(_)
RemoveCommas(s) ==
    IF s = << >> THEN << >>
    ELSE IF Head(s) = "," THEN RemoveCommas(Tail(s))
    ELSE <<Head(s)>> \o RemoveCommas(Tail(s))

\* s.strip()
RECURSIVE StripLeft(_)
StripLeft(s) == IF s # << >> /\ Head(s) = " " THEN StripLeft(Tail(s)) ELSE s
RECURSIVE StripRight(_)
StripRight(s) == IF s # << >> /\ s[Len(s)] = " " THEN StripRight(SubSeq(s, 1, Len(s) - 1)) ELSE s
Strip(s) == StripRight(StripLeft(s))

\* s.title(): a letter after a letter is lowered, any other letter raised.
Title(s) == [i \in 1 .. Len(s) |-> IF i > 1 /\ IsLetter(s[i - 1]) THEN ToLower(s[i]) ELSE ToUpper(s[i])]

\* The whole number a sequence of digits writes.
RECURSIVE DigitsValue(_)
DigitsValue(s) == IF s = << >> THEN 0 ELSE 10 * DigitsValue(SubSeq(s, 1, Len(s) - 1)) + (IndexIn(s[Len(s)], Digits) - 1)

AllDigits(s) == \A i \in 1 .. Len(s) : IsDigit(s[i])

\* The cents the fraction digits of an amount write (the first two count).
FractionCents(s) == DigitsValue(SubSeq(s \o <<"0", "0">>, 1, 2))

\* float(s) of an unsigned decimal s, in cents; None when s is not one.
UnsignedFloat(s) ==
    LET dots == {i \in 1 .. Len(s) : s[i] = "."}
    IN  IF dots = {}
        THEN IF s # << >> /\ AllDigits(s) THEN Num(100 * DigitsValue(s)) ELSE None
        ELSE LET d == CHOOSE i \in dots : \A j \in dots : i <= j
                 whole == SubSeq(s, 1, d - 1)
                 frac == SubSeq(s, d + 1, Len(s))
             IN  IF Len(whole) + Len(frac) > 0 /\ AllDigits(whole) /\ AllDigits(frac)
                 THEN Num(100 * DigitsValue(whole) + FractionCents(frac))
                 ELSE None

\* float(s): a sign, then "nan" in any case or an unsigned decimal; a text
\* float() raises ValueError on gives None.
Float(s) ==
    LET signed == s # << >> /\ Head(s) \in {"+", "-"}
        body == IF signed THEN Tail(s) ELSE s
        u == UnsignedFloat(body)
    IN  IF [i \in 1 .. Len(body) |-> ToLower(body[i])] = <<"n", "a", "n">> THEN NaN
        ELSE IF u.kind = "float" /\ signed /\ Head(s) = "-" THEN Num(0 - u.v)
        ELSE u

\* parse_number(x)
parse_number(x) == Float(Strip(RemoveCommas(x)))

----------------------------------------------------------------------------
(* retirement_calculator.py: the script a rerun executes.                  *)

\* A text a widget yields, and the None it yields without one.
Str(s) == [kind |-> "str", v |-> s]
NoneStr == [kind |-> "None", v |-> << >>]

\* load_company_names(): the titled names of "401k Data.csv".
company_list == {<<"A", "c", "m", "e", " ", "C", "o", "r", "p">>}

NOT_LISTED == <<"M", "y", " ", "C", "o", "m", "p", "a", "n", "y", " ", "I", "s", " ", "N", "o", "t", " ", "L", "i", "s", "t", "e", "d">>

\* Variant: a blank company is recorded as "Unknown" instead of refused.
normalize_company_default_unknown(company_input) ==
    IF company_input.kind = "str" /\ Len(Strip(company_input.v)) >= 3
    THEN LET normalized == Title(Strip(company_input.v))
         IN  Str(IF normalized \in company_list THEN normalized ELSE NOT_LISTED)
    ELSE Str(<<"U", "n", "k", "n", "o", "w", "n">>)

\* company = None; if company_input and len(company_input.strip()) >= 3: ...
normalize_company(company_input) ==
    IF company_input.kind = "str" /\ company_input.v # << >> /\ Len(Strip(company_input.v)) >= 3
    THEN LET normalized == Title(Strip(company_input.v))
         IN  Str(IF normalized \in company_list THEN normalized ELSE NOT_LISTED)
    ELSE NoneStr

\* st.session_state.setdefault(...) of a fresh session.
calculator_defaults == [age_used |-> 41, salary_used |-> Num(8400000), balance_used |-> Num(7650000)]

\* Variant: the company is not checked.
calculator_validate_without_company(age_input, salary_input, balance_input, company) ==
    IF salary_input.kind = "None" \/ LeqZero(salary_input)
    THEN "Please enter a salary greater than $0 to run the projection."
    ELSE IF balance_input.kind = "None"
    THEN "Please enter your current 401(k) balance."
    ELSE IF age_input >= 65
    THEN "Projection only supports ages under 65."
    ELSE ""

\* The st.error of the Calculate handler's first failing check, "" if none.
calculator_validate(age_input, salary_input, balance_input, company) ==
    IF salary_input.kind = "None" \/ LeqZero(salary_input)
    THEN "Please enter a salary greater than $0 to run the projection."
    ELSE IF balance_input.kind = "None"
    THEN "Please enter your current 401(k) balance."
    ELSE IF age_input >= 65
    THEN "Projection only supports ages under 65."
    ELSE IF company.kind = "None"
    THEN "Please select or enter a company name."
    ELSE ""

\* Variant: the insert is not wrapped in try/except, so that a raising sink
\* ends the run before compute_projection.
sink_insert_unguarded(rows, supabase, row) ==
    IF supabase = "None" THEN [rows |-> rows, raised |-> FALSE]
    ELSE IF supabase = "raises" THEN [rows |-> rows, raised |-> TRUE]
    ELSE [rows |-> Append(rows, row), raised |-> FALSE]

\* try: if supabase: supabase.table("submissions").insert(row).execute()
\* except Exception: pass.  supabase is "None" (no client), "ok" or "raises"
\* (the insert raises); raised tells whether an exception leaves the block.
sink_insert(rows, supabase, row) ==
    IF supabase = "None" THEN [rows |-> rows, raised |-> FALSE]
    ELSE IF supabase = "raises" THEN [rows |-> rows, raised |-> FALSE]
    ELSE [rows |-> Append(rows, row), raised |-> FALSE]

\* if calculate: ... : the session, the rows, the error shown and whether an
\* exception ended the run.
calculator_handler(session, rows, a, supabase) ==
    LET salary_input == parse_number(a.salary_text)
        balance_input == parse_number(a.balance_text)
        company == normalize_company(a.company_input)
        error == calculator_validate(a.age_input, salary_input, balance_input, company)
    IN  IF ~a.calculate
        THEN [session |-> session, rows |-> rows, error |-> "", raised |-> FALSE]
        ELSE IF error # ""
        THEN [session |-> session, rows |-> rows, error |-> error, raised |-> FALSE]
        ELSE LET used == [age_used |-> a.age_input, salary_used |-> salary_input, balance_used |-> balance_input]
                 sent == sink_insert(rows, supabase, [age |-> a.age_input, salary |-> salary_input, balance |-> balance_input, company |-> company.v])
             IN  [session |-> used, rows |-> sent.rows, error |-> "", raised |-> sent.raised]

\* compute_projection on floats: a nan salary or balance passes the guard
\* (nan <= 0 is False) and makes every balance after the first nan.
compute_projection_float(age, salary, balance) ==
    IF salary.kind = "float" /\ balance.kind = "float"
    THEN compute_projection(age, salary.v, balance.v)
    ELSE IF age >= target_age \/ LeqZero(salary)
    THEN [raised |-> FALSE, age |-> <<age>>, baseline |-> <<balance>>, with_help |-> <<balance>>, yearly_baseline |-> << >>, yearly_with_help |-> << >>]
    ELSE LET num_points == target_age - age + 1
             out == [i \in 1 .. num_points |-> IF i = 1 THEN balance ELSE NaN]
         IN  [raised |-> FALSE, age |-> Range(age, age + num_points), baseline |-> out, with_help |-> out, yearly_baseline |-> << >>, yearly_with_help |-> << >>]

\* df = compute_projection(st.session_state.age_used, ...salary_used,
\* ...balance_used), memoised.
session_projection(cache, session) ==
    LET k == projection_key(session.age_used, session.salary_used, session.balance_used)
    IN  IF k \in DOMAIN cache
        THEN [cache |-> cache, ret |-> cache[k], hit |-> 1]
        ELSE Then(compute_projection_float(session.age_used, session.salary_used, session.balance_used),
                  LAMBDA v : [cache |-> (k :> v) @@ cache, ret |-> v, hit |-> 0])

----------------------------------------------------------------------------
(* Internal_Calc.py: the script a rerun executes.                          *)

CONTRIB_FREQ_LABELS == ("Semi-monthly (24x/year)" :> 24) @@ ("Bi-weekly (26x/year)" :> 26)
MODEL_DROPDOWN_OPTIONS == DOMAIN MODEL_OPTIONS \cup {"All Models"}

\* st.session_state.setdefault(...) and cfg.setdefault(...) of a fresh session.
internal_defaults == [age_used |-> 42, salary_used |-> Num(8400000), balance_used |-> Num(7650000), cfg |-> [target_age |-> 65, salary_growth_rate_pct |-> 30000, employee_contrib_rate_pct |-> 78000, employer_contrib_rate_pct |-> 46000, model_selection |-> "Core", contrib_frequency_label |-> "Bi-weekly (26x/year)", contributions_per_year |-> 26]]

\* with st.expander("Assumptions"): cfg[...] = st.number_input(...) ...
assumptions_expander(cfg, a) ==
    [cfg EXCEPT !.salary_growth_rate_pct = a.salary_growth_rate_pct,
                !.employee_contrib_rate_pct = a.employee_contrib_rate_pct,
                !.employer_contrib_rate_pct = a.employer_contrib_rate_pct,
                !.contrib_frequency_label = a.contrib_frequency_label,
                !.contributions_per_year = CONTRIB_FREQ_LABELS[a.contrib_frequency_label]]

\* Variant: the balance is checked before the salary.
internal_validate_balance_first(age_input, target_age_input, salary_input, balance_input) ==
    IF balance_input.kind = "None"
    THEN "Enter a current 401(k) balance."
    ELSE IF salary_input.kind = "None" \/ LeqZero(salary_input)
    THEN "Enter a salary greater than $0."
    ELSE IF age_input >= target_age_input
    THEN "Retirement age must be greater than current age."
    ELSE ""

\* The st.error of the Calculate handler's first failing check, "" if none.
internal_validate(age_input, target_age_input, salary_input, balance_input) ==
    IF salary_input.kind = "None" \/ LeqZero(salary_input)
    THEN "Enter a salary greater than $0."
    ELSE IF balance_input.kind = "None"
    THEN "Enter a current 401(k) balance."
    ELSE IF age_input >= target_age_input
    THEN "Retirement age must be greater than current age."
    ELSE ""

\* The widgets' assignments to cfg, then if calculate: ... : the session and
\* the error shown.
internal_handler(session, a) ==
    LET cfg == assumptions_expander(session.cfg, a)
        salary_input == parse_number(a.salary_text)
        balance_input == parse_number(a.balance_text)
        error == internal_validate(a.age_input, a.target_age_input, salary_input, balance_input)
    IN  IF ~a.calculate
        THEN [session |-> [session EXCEPT !.cfg = cfg], error |-> ""]
        ELSE IF error # ""
        THEN [session |-> [session EXCEPT !.cfg = cfg], error |-> error]
        ELSE [session |-> [age_used |-> a.age_input, salary_used |-> salary_input, balance_used |-> balance_input,
                           cfg |-> [cfg EXCEPT !.target_age = a.target_age_input, !.model_selection = a.model_choice]],
              error |-> ""]

\* selected = cfg.get("model_selection", "All Models"); the frames of the
\* chart: dfs of the All Models branch, or the df of the selected model.
internal_display(cache, session) ==
    LET selected == session.cfg.model_selection
        a == [age |-> session.age_used, salary |-> session.salary_used.v, balance |-> session.balance_used.v]
    IN  IF selected = "All Models"
        THEN all_models_loop(Len(MODEL_NAMES), cache, a, session.cfg)
        ELSE Then(cached_one_line(cache, a.age, a.salary, a.balance, session.cfg, MODEL_OPTIONS[selected]),
                  LAMBDA c : [cache |-> c.cache, dfs |-> (selected :> c.ret), hits |-> c.hit])

----------------------------------------------------------------------------
(* SpecUI: the reruns of a script in one session.  A rerun executes the    *)
(* whole script on the values its widgets hold.                            *)

\* The most rows the table "submissions" holds.
MaxSubmissions == 2

SalaryTexts == {<<"9", "0", ",", "0", "0", "0">>, <<"0">>, <<"n", "a", "n">>, << >>}
BalanceTexts == {<<"7", "6", ",", "5", "0", "0">>, << >>}
CompanyInputs == {NoneStr, Str(<<" ", " ">>), Str(<<"a", "c", "m", "e", " ", "c", "o", "r", "p">>), Str(<<"i", "n", "i", "t", "e", "c", "h">>)}
CalculatorInputs == [age_input : {41, 65}, salary_text : SalaryTexts, balance_text : BalanceTexts, company_input : CompanyInputs, calculate : BOOLEAN]
Clients == {"None", "ok", "raises"}
InternalInputs ==
    {a \in [age_input : {64}, target_age_input : {65, 70}, salary_text : {<<"9", "0", ",", "0", "0", "0">>, <<"0">>},
            balance_text : BalanceTexts, salary_growth_rate_pct : {30000, 50000}, employee_contrib_rate_pct : {78000},
            employer_contrib_rate_pct : {46000}, contrib_frequency_label : {"Bi-weekly (26x/year)"},
            model_choice : {"Core", "All Models"}, calculate : BOOLEAN] :
        a.target_age_input >= a.age_input + 1}

InitUI ==
    /\ pc = "ready"
    /\ \/ fn = "retirement_calculator" /\ session_state = calculator_defaults
       \/ fn = "Internal_Calc" /\ session_state = internal_defaults
    /\ args = NoRet
    /\ ret = NoRet
    /\ cache_one_line = << >>
    /\ cache_projection = << >>
    /\ hits = 0
    /\ submissions = << >>

\* One run of retirement_calculator.py: the widgets, the Calculate handler
\* and the projection of the session inputs.  A run an exception ends shows
\* no projection.
RerunCalculator ==
    /\ pc = "ready" /\ fn = "retirement_calculator"
    /\ \E a \in CalculatorInputs, supabase \in Clients :
        LET h == calculator_handler(session_state, submissions, a, supabase)
            c == session_projection(cache_projection, h.session)
            reached == a.calculate /\ h.error = ""
        IN  /\ (a.calculate \/ supabase = "None")
            /\ (~reached => supabase = "None")
            /\ Len(h.rows) <= MaxSubmissions
            /\ args' = a
            /\ session_state' = h.session
            /\ submissions' = h.rows
            /\ IF h.raised
               THEN /\ ret' = [error |-> h.error, supabase |-> supabase, raised |-> TRUE, shown |-> FALSE, df |-> NoRet]
                    /\ UNCHANGED <<cache_projection, hits>>
               ELSE /\ ret' = [error |-> h.error, supabase |-> supabase, raised |-> FALSE, shown |-> TRUE, df |-> c.ret]
                    /\ cache_projection' = c.cache
                    /\ hits' = c.hit
            /\ pc' = "done"
            /\ UNCHANGED <<fn, cache_one_line>>

\* One run of Internal_Calc.py: the widgets store the assumptions in cfg, the
\* Calculate handler, and the chart of the session inputs under cfg.
RerunInternal ==
    /\ pc = "ready" /\ fn = "Internal_Calc"
    /\ \E a \in InternalInputs :
        LET h == internal_handler(session_state, a)
            d == internal_display(cache_one_line, h.session)
        IN  /\ CacheSize(d.cache, cache_projection) <= MaxCache
            /\ args' = a
            /\ session_state' = h.session
            /\ ret' = [error |-> h.error, shown |-> TRUE, df |-> d.dfs]
            /\ cache_one_line' = d.cache
            /\ hits' = d.hits
            /\ pc' = "done"
            /\ UNCHANGED <<fn, cache_projection, submissions>>

\* The run ends: the values of the widgets and the locals of the script are
\* gone; the session, the stores and the table stay.
EndRun ==
    /\ pc = "done"
    /\ pc' = "ready"
    /\ args' = NoRet
    /\ ret' = NoRet
    /\ hits' = 0
    /\ UNCHANGED <<fn, session_state, submissions, cache_one_line, cache_projection>>

NextUI == RerunCalculator \/ RerunInternal \/ EndRun

SpecUI == InitUI /\ [][NextUI]_vars

----------------------------------------------------------------------------
(* src/Internal_Calc.py, "Retirement Planner": the script from its widgets  *)
(* to the two frames df_pre and df_post and the summary figures.            *)

\* An int, where the source has an int or None.
IntOf(n) == [kind |-> "int", v |-> n]

\* max(x, 0)
MaxZero(x) == IF x > 0 THEN x ELSE 0

\* horizon_max_age = 110
horizon_max_age == 110

\* monthly_contrib * (((1 + rm) ** m - 1) / rm), for rm # 0.  The quotient
\* exceeds the range of a factor: its whole part and its fraction multiply
\* the contribution separately.
fv_of_contribs(monthly_contrib, rm, m) ==
    LET grown == Pow(Scale + rm, m) - Scale
    IN  monthly_contrib * (grown \div rm)
        + MulDiv(monthly_contrib, FracDigits(grown % rm, rm, 8))

\* balance_at_retirement = fv_savings + fv_contribs, with the fallback of
\* rm == 0.
balance_at_retirement(current_savings, monthly_contrib, rm, n_months) ==
    LET fv_contribs == IF rm = 0 THEN monthly_contrib * n_months
                       ELSE fv_of_contribs(monthly_contrib, rm, n_months)
        fv_savings == IF rm = 0 THEN current_savings
                      ELSE MulDiv(current_savings, Pow(Scale + rm, n_months))
    IN  fv_savings + fv_contribs

\* income * (pct_income_needed / 100.0) * ((1 + i) ** years_to_retire)
spend_at_retirement(income, pct_income_needed, i, years_to_retire) ==
    MulDiv(MulDiv(income, pct_income_needed * (Scale \div 100)),
           Pow(Scale + i, years_to_retire))

\* Variant: balances.append(b), not clamped at 0.
decumulation_iteration_unclamped(st, y, retire_age, r, i) ==
    IF st.broke THEN st
    ELSE LET rec == [st EXCEPT !.ages = Append(st.ages, retire_age + y),
                               !.balances = Append(st.balances, st.b),
                               !.spends = Append(st.spends, st.s)]
         IN  IF st.b <= 0 THEN [rec EXCEPT !.broke = TRUE]
             ELSE Then(MulDiv(st.b, Scale + r) - st.s,
                       LAMBDA b : [rec EXCEPT !.b = b,
                                              !.s = MulDiv(st.s, Scale + i)])

\* The body of `for y in range(years_post + 1)` on the variables
\* [b, s, ages, balances, spends] of the loop; broke tells that an earlier
\* iteration left the loop, after which no iteration runs.
decumulation_iteration(st, y, retire_age, r, i) ==
    IF st.broke THEN st
    ELSE LET rec == [st EXCEPT !.ages = Append(st.ages, retire_age + y),
                               !.balances = Append(st.balances, MaxZero(st.b)),
                               !.spends = Append(st.spends, st.s)]
         IN  IF st.b <= 0 THEN [rec EXCEPT !.broke = TRUE]
             ELSE Then(MulDiv(st.b, Scale + r) - st.s,
                       LAMBDA b : [rec EXCEPT !.b = b,
                                              !.s = MulDiv(st.s, Scale + i)])

\* The iterations lo..hi of the loop in order, from the variables st; the
\* range is halved to keep the evaluation shallow.
RECURSIVE decumulation_range(_, _, _, _, _, _)
decumulation_range(st, lo, hi, retire_age, r, i) ==
    IF lo > hi THEN st
    ELSE IF lo = hi THEN decumulation_iteration(st, lo, retire_age, r, i)
    ELSE LET mid == (lo + hi) \div 2
         IN  Then(decumulation_range(st, lo, mid, retire_age, r, i),
                  LAMBDA half : decumulation_range(half, mid + 1, hi, retire_age, r, i))

\* The decumulation loop from b = balance and s = spend: the frame df_post.
decumulation(retire_age, balance, spend, r, i) ==
    LET years_post == MaxZero(horizon_max_age - retire_age)
        st == decumulation_range([b |-> balance, s |-> spend, broke |-> FALSE,
                                  ages |-> << >>, balances |-> << >>,
                                  spends |-> << >>],
                                 0, years_post, retire_age, r, i)
    IN  [Age |-> st.ages, Balance |-> st.balances, Spending |-> st.spends]

\* Variant: the months of the year after, m = (yr - age + 1) * 12.
growth_balances_of_next_year(age, retire_age, current_savings, monthly_contrib, rm) ==
    LET df_growth_years == Range(age, retire_age + 1)
    IN  [k \in 1 .. Len(df_growth_years) |->
            LET yr == df_growth_years[k]
                m == (yr - age + 1) * 12
            IN  IF rm = 0 THEN current_savings + monthly_contrib * m
                ELSE (IF m > 0 THEN fv_of_contribs(monthly_contrib, rm, m) ELSE 0)
                     + MulDiv(current_savings, Pow(Scale + rm, m))]

\* growth_balances over df_growth_years = list(range(age, retire_age + 1)),
\* in the branch of rm == 0 and in the other.
growth_balances(age, retire_age, current_savings, monthly_contrib, rm) ==
    LET df_growth_years == Range(age, retire_age + 1)
    IN  [k \in 1 .. Len(df_growth_years) |->
            LET yr == df_growth_years[k]
            IN  IF rm = 0
                THEN current_savings + monthly_contrib * (12 * (yr - age))
                ELSE LET m == (yr - age) * 12
                         fv_c == IF m > 0
                                 THEN fv_of_contribs(monthly_contrib, rm, m)
                                 ELSE 0
                         fv_s == MulDiv(current_savings, Pow(Scale + rm, m))
                     IN  fv_c + fv_s]

\* runout_age: None, or the last Age of df_post when its last Balance is
\* not above 0.
runout_age(df_post) ==
    LET n == Len(df_post.Age)
    IN  IF n > 0 /\ df_post.Balance[n] <= 0 THEN IntOf(df_post.Age[n]) ELSE None

\* One run of the script on the values a of its widgets.
planner(a) ==
    LET years_to_retire == a.retire_age - a.age
        r == FromPercent(a.exp_return)
        i == FromPercent(a.inflation)
        rm == r \div 12
        n_months == years_to_retire * 12
        balance == balance_at_retirement(a.current_savings, a.monthly_contrib,
                                         rm, n_months)
        spend == spend_at_retirement(a.income, a.pct_income_needed, i,
                                     years_to_retire)
        df_post == decumulation(a.retire_age, balance, spend, r, i)
    IN  [balance_at_retirement |-> balance,
         spend_at_retirement |-> spend,
         df_pre |-> [Age |-> Range(a.age, a.retire_age + 1),
                     Balance |-> growth_balances(a.age, a.retire_age,
                                                 a.current_savings,
                                                 a.monthly_contrib, rm)],
         df_post |-> df_post,
         runout_age |-> runout_age(df_post)]

----------------------------------------------------------------------------
(* SpecPlanner: reruns of the Retirement Planner.  The script keeps nothing *)
(* between runs; every run computes from the values of its widgets.         *)

\* The values the widgets start with.
planner_defaults ==
    [age |-> 28, retire_age |-> 65, income |-> 9000000,
     pct_income_needed |-> 80, current_savings |-> 5000000,
     monthly_contrib |-> 100000, exp_return |-> 70000, inflation |-> 25000]

\* Values with which the savings last exactly the 20 years from the
\* retirement age to horizon_max_age: 20 times the spending of a year, at no
\* return and no inflation.
planner_spends_all_by_horizon ==
    [age |-> 64, retire_age |-> 90, income |-> 9000000,
     pct_income_needed |-> 80, current_savings |-> 144000000,
     monthly_contrib |-> 0, exp_return |-> 0, inflation |-> 0]

\* The values of the widgets: ages within 18..80 and age + 1..90 (the
\* default 65 of the retirement age is below its minimum from age 65 on,
\* which the widget refuses), money in cents at or above 0, the percentage
\* of income within 30..120, the return within 0..20 and the inflation
\* within 0..10 percent.
PlannerInputs ==
    {a \in [age : {62, 64}, retire_age : {65, 89, 90},
            income : {0, 9000000}, pct_income_needed : {80, 120},
            current_savings : {0, 5000000, 21600000},
            monthly_contrib : {0, 100000},
            exp_return : {0, 70000}, inflation : {0, 25000}] :
        a.retire_age >= a.age + 1}
    \cup {planner_defaults, planner_spends_all_by_horizon}

InitPlanner ==
    /\ pc = "ready"
    /\ fn = "planner"
    /\ args = NoRet
    /\ ret = NoRet
    /\ cache_one_line = << >>
    /\ cache_projection = << >>
    /\ hits = 0
    /\ session_state = NoRet
    /\ submissions = << >>

RerunPlanner ==
    /\ pc = "ready" /\ fn = "planner"
    /\ \E a \in PlannerInputs :
        /\ args' = a
        /\ ret' = planner(a)
    /\ pc' = "done"
    /\ UNCHANGED <<fn, cache_one_line, cache_projection, hits,
                   session_state, submissions>>

NextPlanner == RerunPlanner \/ EndRun

SpecPlanner == InitPlanner /\ [][NextPlanner]_vars

----------------------------------------------------------------------------
(* Properties.                                                             *)

Done(f) == pc = "done" /\ fn = f

\* The frames of the scenarios a finished call produced: [ages, balances].
Scenarios ==
    IF Done("compute_projection_one_line")
    THEN {[ages |-> ret.age, balances |-> ret.value]}
    ELSE IF Done("all_models")
    THEN {[ages |-> ret[name].age, balances |-> ret[name].value] :
             name \in DOMAIN ret}
    ELSE IF Done("compute_projection") /\ ~ret.raised
    THEN {[ages |-> ret.age, balances |-> ret.baseline],
          [ages |-> ret.age, balances |-> ret.with_help]}
    ELSE {}

\* A finished call of one of the three projections.
ProjectionDone ==
    \/ Done("compute_projection_one_line")
    \/ Done("all_models")
    \/ Done("compute_projection")

\* The target age of the finished call.
TargetOfCall ==
    IF Done("compute_projection") THEN target_age ELSE args.cfg.target_age

NonDecreasing(s) == \A k \in 1 .. Len(s) - 1 : s[k + 1] >= s[k]

\* C1: a projection with current_age < target_age and salary > 0 has, in
\* every scenario, exactly years + 1 points, the ages current_age + k for
\* k = 0..years in order, and as many balances as ages.
C1_LengthAndAges ==
    (ProjectionDone /\ args.age < TargetOfCall /\ args.salary > 0) =>
        LET years == TargetOfCall - args.age
        IN  /\ Scenarios # {}
            /\ \A sc \in Scenarios :
                /\ Len(sc.ages) = years + 1
                /\ \A k \in 0 .. years : sc.ages[k + 1] = args.age + k
                /\ Len(sc.balances) = Len(sc.ages)

C1_Witness ==
    /\ Done("compute_projection")
    /\ args.age = target_age - MaxYears /\ args.salary > 0
    /\ Len(ret.baseline) = MaxYears + 1
    /\ Len(ret.with_help) = MaxYears + 1
    /\ ret.age[MaxYears + 1] = target_age

\* C2: for every input and every scenario the first balance is the
\* starting balance, unchanged.
C2_FirstIsStart ==
    ProjectionDone =>
        /\ Scenarios # {}
        /\ \A sc \in Scenarios :
            Len(sc.balances) >= 1 /\ sc.balances[1] = args.balance

C2_Witness ==
    /\ Done("compute_projection_one_line")
    /\ args.age < args.cfg.target_age /\ args.salary > 0
    /\ args.model_return > 0 /\ args.balance > 0
    /\ ret.value[1] = args.balance
    /\ ret.value[2] > args.balance

\* C3: with current_age >= target_age or salary <= 0 every scenario is the
\* single point ages = [current_age], balances = [current_balance], returned
\* normally.
C3_SinglePoint ==
    (ProjectionDone /\ (args.age >= TargetOfCall \/ args.salary <= 0)) =>
        /\ Scenarios # {}
        /\ \A sc \in Scenarios :
            sc.ages = <<args.age>> /\ sc.balances = <<args.balance>>

C3_Witness ==
    /\ Done("compute_projection_one_line")
    /\ args.age < args.cfg.target_age /\ args.salary <= 0
    /\ ret.age = <<args.age>> /\ ret.value = <<args.balance>>

\* The annual contribution of year k (k = 0..years-1) of a call of
\* compute_projection_one_line: salary * (1 + salary_growth) ** k times the
\* contribution rate.
AnnualContribution(k) ==
    LET growth == FromPercent(args.cfg.salary_growth_rate_pct)
        rate == FromPercent(args.cfg.employee_contrib_rate_pct)
                + FromPercent(args.cfg.employer_contrib_rate_pct)
    IN  MulDiv(MulDiv(args.salary, Pow(Scale + growth, k)), rate)

RECURSIVE SumOfContributions(_)
SumOfContributions(years) ==
    IF years <= 0 THEN 0
    ELSE SumOfContributions(years - 1) + AnnualContribution(years - 1)

\* C4: at an annual return of 0 the final balance is the starting balance
\* plus the sum of the annual contributions of years 0..years-1, for every
\* number of periods per year.  Each of the periods_per_year installments of
\* a year is rounded down by less than one cent, which is the tolerance.
C4_ZeroReturnSumsContributions ==
    (/\ Done("compute_projection_one_line")
     /\ args.model_return = 0
     /\ args.age < args.cfg.target_age /\ args.salary > 0) =>
        LET years == args.cfg.target_age - args.age
            expected == args.balance + SumOfContributions(years)
            final == ret.value[years + 1]
        IN  /\ final <= expected
            /\ final >= expected - years * (args.cfg.contributions_per_year - 1)

C4_Witness ==
    /\ Done("compute_projection_one_line")
    /\ args.model_return = 0
    /\ args.age = args.cfg.target_age - MaxYears /\ args.salary > 0
    /\ args.cfg.contributions_per_year = 26
    /\ args.cfg.salary_growth_rate_pct > 0
    /\ args.cfg.employee_contrib_rate_pct > 0
    /\ ret.value[MaxYears + 1] > args.balance + MaxYears * AnnualContribution(0)
                                 - MaxYears * 26

\* C5: at an annual return of 0 and a contribution rate of 0 every balance
\* is the starting balance.
C5_ZeroReturnZeroContribution ==
    (/\ Done("compute_projection_one_line")
     /\ args.model_return = 0
     /\ args.cfg.employee_contrib_rate_pct = 0
     /\ args.cfg.employer_contrib_rate_pct = 0) =>
        \A k \in 1 .. Len(ret.value) : ret.value[k] = args.balance

C5_Witness ==
    /\ Done("compute_projection_one_line")
    /\ args.model_return = 0
    /\ args.cfg.employee_contrib_rate_pct = 0
    /\ args.cfg.employer_contrib_rate_pct = 0
    /\ args.salary > 0 /\ args.balance > 0
    /\ Len(ret.value) = MaxYears + 1
    /\ ret.value[MaxYears + 1] = args.balance

\* The rates of the finished call are not negative: the return, the salary
\* growth and the contribution rates (those of compute_projection are its
\* constants).
RatesNotNegative ==
    IF Done("compute_projection")
    THEN r_no_help >= 0 /\ r_help >= 0 /\ salary_growth_rate >= 0
         /\ contribution_rate >= 0
    ELSE /\ args.cfg.salary_growth_rate_pct >= 0
         /\ args.cfg.employee_contrib_rate_pct >= 0
         /\ args.cfg.employer_contrib_rate_pct >= 0
         /\ IF Done("all_models")
            THEN \A name \in DOMAIN MODEL_OPTIONS : MODEL_OPTIONS[name] >= 0
            ELSE args.model_return >= 0

\* C6: with a return, a salary growth, a contribution rate and a starting
\* balance that are not negative, the balances never decrease from one year
\* to the next, in every scenario.
C6_Monotone ==
    (ProjectionDone /\ RatesNotNegative /\ args.balance >= 0) =>
        /\ Scenarios # {}
        /\ \A sc \in Scenarios : NonDecreasing(sc.balances)

C6_Witness ==
    /\ Done("compute_projection")
    /\ args.age = target_age - MaxYears /\ args.salary > 0 /\ args.balance > 0
    /\ \A k \in 1 .. MaxYears :
        /\ ret.baseline[k + 1] > ret.baseline[k]
        /\ ret.with_help[k + 1] > ret.with_help[k]

\* C9: scenarios that differ only in the annual return have the same ages
\* and the same contribution of every year.
C9_ScenariosShareSchedule ==
    /\ Done("all_models") =>
        \A n1, n2 \in DOMAIN ret :
            /\ ret[n1].age = ret[n2].age
            /\ ret[n1].contribs = ret[n2].contribs
    /\ (Done("compute_projection") /\ ~ret.raised) =>
        /\ ret.yearly_baseline = ret.yearly_with_help
        /\ Len(ret.baseline) = Len(ret.age)
        /\ Len(ret.with_help) = Len(ret.age)

C9_Witness ==
    /\ Done("all_models")
    /\ DOMAIN ret = DOMAIN MODEL_OPTIONS
    /\ args.age = args.cfg.target_age - MaxYears /\ args.salary > 0
    /\ args.cfg.salary_growth_rate_pct > 0
    /\ args.cfg.employee_contrib_rate_pct > 0
    /\ ret["Core"].contribs = ret["Aggressive"].contribs
    /\ ret["Core"].contribs[MaxYears] > ret["Core"].contribs[1]
    /\ ret["Core"].value[MaxYears + 1] < ret["Aggressive"].value[MaxYears + 1]

\* sum_{i=0}^{n-1} g^i
RECURSIVE SumPow(_, _)
SumPow(g, n) == IF n <= 0 THEN 0 ELSE SumPow(g, n - 1) + Pow(g, n - 1)

\* start*(1+r)^n + c * sum_{i=0}^{n-1} (1+r)^i, for the period factor g = 1+r.
DirectSum(start, c, g, n) == MulDiv(start, Pow(g, n)) + MulDiv(c, SumPow(g, n))

\* Each of the periods of a year rounds the balance down by less than one
\* cent, compounded; two cents a period bound the difference of two ways of
\* computing one year.
RoundingTolerance == 2 * months

Within(x, y, tol) == x - y <= tol /\ y - x <= tol

C10_MemoizedIsPure ==
    /\ Done("compute_projection_one_line") =>
        ret = compute_projection_one_line(args.age, args.salary, args.balance,
                                          args.cfg, args.model_return)
    /\ Done("all_models") =>
        /\ DOMAIN ret = DOMAIN MODEL_OPTIONS
        /\ \A name \in DOMAIN MODEL_OPTIONS :
            ret[name] = compute_projection_one_line(
                            args.age, args.salary, args.balance, args.cfg,
                            MODEL_OPTIONS[name])
    /\ Done("compute_projection") =>
        ret = compute_projection(args.age, args.salary, args.balance)

\* The store answers a call whose key differs from another stored key in
\* model_return only, with a frame that is not the other key's.
C10_Witness ==
    /\ Done("compute_projection_one_line")
    /\ hits = 1
    /\ args.model_return = MODEL_OPTIONS["Aggressive"]
    /\ LET other == one_line_key(args.age, args.salary, args.balance,
                                 args.cfg, MODEL_OPTIONS["Core"])
       IN  /\ other \in DOMAIN cache_one_line
           /\ cache_one_line[other] # ret
    /\ Len(ret.value) = 2
    /\ ret.value[2] > args.balance

\* The Calculate of retirement_calculator.py on the inputs a passes every
\* check: a salary that is not missing and not <= 0, a balance that is not
\* missing, an age under 65, a company.
CalculatorAccepts(a) ==
    LET salary_input == parse_number(a.salary_text)
        balance_input == parse_number(a.balance_text)
    IN  /\ salary_input.kind # "None" /\ ~LeqZero(salary_input)
        /\ balance_input.kind # "None"
        /\ a.age_input < target_age
        /\ normalize_company(a.company_input).kind = "str"

\* C11: after a Calculate that passes validation the session inputs are the
\* entered ones and the projection shown is compute_projection of them,
\* whether the client is missing, the insert succeeds or it raises.
C11_SinkNeverBlocksProjection ==
    (Done("retirement_calculator") /\ args.calculate /\ CalculatorAccepts(args)) =>
        /\ ret.supabase \in Clients
        /\ ret.shown
        /\ session_state = [age_used |-> args.age_input, salary_used |-> parse_number(args.salary_text), balance_used |-> parse_number(args.balance_text)]
        /\ ret.df = compute_projection_float(session_state.age_used, session_state.salary_used, session_state.balance_used)

C11_Witness ==
    /\ Done("retirement_calculator") /\ args.calculate /\ CalculatorAccepts(args)
    /\ ret.supabase = "raises"
    /\ submissions = << >>
    /\ session_state.salary_used = Num(9000000)
    /\ ret.shown
    /\ Len(ret.df.baseline) = target_age - args.age_input + 1
    /\ ret.df.baseline[Len(ret.df.baseline)] > session_state.balance_used.v

\* C12: a rerun inserts at most one row, and inserts one only when Calculate
\* was pressed and every validation check passed; no step removes or
\* changes a row.
C12_InsertOnlyOnCalculate ==
    [][/\ Len(submissions') <= Len(submissions) + 1
       /\ SubSeq(submissions', 1, Len(submissions)) = submissions
       /\ Len(submissions') > Len(submissions) =>
            /\ pc' = "done"
            /\ args'.calculate
            /\ CalculatorAccepts(args')]_vars

C12_Witness ==
    /\ Done("retirement_calculator") /\ args.calculate /\ CalculatorAccepts(args)
    /\ ret.supabase = "ok"
    /\ Len(submissions) = 2
    /\ submissions[2].salary = parse_number(args.salary_text)
    /\ submissions[2].age = args.age_input

\* Nothing selected, or a text of fewer than 3 characters once stripped.
BlankCompany(company_input) == company_input.kind = "None" \/ Len(Strip(company_input.v)) < 3

InternalAccepts(a) ==
    LET salary_input == parse_number(a.salary_text)
        balance_input == parse_number(a.balance_text)
    IN  /\ salary_input.kind # "None" /\ ~LeqZero(salary_input)
        /\ balance_input.kind # "None"
        /\ a.age_input < a.target_age_input

\* The run of the script fn on the inputs a is a successful Calculate.
SuccessfulCalculate(f, a) ==
    a.calculate /\ (IF f = "retirement_calculator" THEN CalculatorAccepts(a) ELSE InternalAccepts(a))

\* C16: a rerun that is not a successful Calculate leaves the inputs of the
\* projection (age_used, salary_used, balance_used and, in Internal_Calc.py,
\* cfg) as they were, whatever the widgets hold.
C16_InputsFixedAtCalculate ==
    [][(pc' = "done" /\ ~SuccessfulCalculate(fn', args')) =>
            session_state' = session_state]_vars

\* C17: the stored session inputs always satisfy salary_used > 0 and
\* age_used < the target age.
C17_SessionInputsValid ==
    (fn \in {"retirement_calculator", "Internal_Calc"}) =>
        /\ GtZero(session_state.salary_used)
        /\ session_state.age_used <
               (IF fn = "retirement_calculator" THEN target_age ELSE session_state.cfg.target_age)

\* The error of the first check, in the order salary, balance, age, company,
\* that the inputs a of the script f fail.
FirstFailingCheck(f, a) ==
    LET salary_input == parse_number(a.salary_text)
        balance_input == parse_number(a.balance_text)
        rc == f = "retirement_calculator"
    IN  IF salary_input.kind = "None" \/ LeqZero(salary_input)
        THEN IF rc THEN "Please enter a salary greater than $0 to run the projection." ELSE "Enter a salary greater than $0."
        ELSE IF balance_input.kind = "None"
        THEN IF rc THEN "Please enter your current 401(k) balance." ELSE "Enter a current 401(k) balance."
        ELSE IF a.age_input >= (IF rc THEN target_age ELSE a.target_age_input)
        THEN IF rc THEN "Projection only supports ages under 65." ELSE "Retirement age must be greater than current age."
        ELSE "Please select or enter a company name."

\* C18: a Calculate that validation rejects changes none of age_used,
\* salary_used, balance_used, cfg['target_age'], cfg['model_selection'], and
\* shows the error of the first failing check only.
C18_RejectedCalculateChangesNothing ==
    [][(pc' = "done" /\ args'.calculate /\ ~SuccessfulCalculate(fn', args')) =>
            /\ session_state'.age_used = session_state.age_used
            /\ session_state'.salary_used = session_state.salary_used
            /\ session_state'.balance_used = session_state.balance_used
            /\ fn' = "Internal_Calc" =>
                 /\ session_state'.cfg.target_age = session_state.cfg.target_age
                 /\ session_state'.cfg.model_selection = session_state.cfg.model_selection
            /\ ret'.error = FirstFailingCheck(fn', args')]_vars

C18_Witness ==
    /\ Done("Internal_Calc") /\ args.calculate
    /\ parse_number(args.salary_text) = Num(0)
    /\ parse_number(args.balance_text).kind = "None"
    /\ ret.error = "Enter a salary greater than $0."
    /\ session_state.age_used # args.age_input
    /\ session_state.cfg.target_age # args.target_age_input
    /\ session_state.cfg.model_selection # args.model_choice
    /\ session_state.salary_used = Num(8400000)
    /\ session_state.cfg.salary_growth_rate_pct # 30000


\* One iteration of the loop of project from the balance total with the
\* annual contribution yearly at the annual return rate.
ProjectStep(total, yearly, rate) ==
    LET monthly_rate == Root(Scale + rate, months)
        monthly_factor == Pow(monthly_rate, months)
        contrib_multiplier == DivF(monthly_factor - Scale, monthly_rate - Scale)
    IN  MulDiv(total, monthly_factor)
        + MulDiv(yearly \div months, contrib_multiplier)

\* One year of compute_projection_one_line from the balance total with the
\* annual contribution annual_amount.
OneLineStep(total, annual_amount) ==
    LET per == args.cfg.contributions_per_year
    IN  pay_period_loop(total, build_pay_period_schedule(annual_amount, per),
                        period_rate(args.model_return, per), 1, per)

\* The annual contribution of year k of a call of compute_projection:
\* salary * (1 + salary_growth_rate) ** k times contribution_rate.
CalculatorContribution(k) ==
    MulDiv(MulDiv(args.salary, Pow(Scale + salary_growth_rate, k)),
           contribution_rate)

\* C14: the balance of index k + 1 (k = 0..years-1) is the balance of index
\* k after one year whose contribution is salary * (1 + growth) ** k times
\* the contribution rate, in both engines; the frame has years + 1 balances,
\* so that no salary of index years or later reaches a returned balance.
C14_ContributionUsesSalaryOfYear ==
    /\ (Done("compute_projection_one_line")
        /\ args.age < args.cfg.target_age /\ args.salary > 0) =>
            LET years == args.cfg.target_age - args.age
            IN  /\ Len(ret.value) = years + 1
                /\ \A k \in 0 .. years - 1 :
                    ret.value[k + 2]
                        = OneLineStep(ret.value[k + 1], AnnualContribution(k))
    /\ (Done("compute_projection") /\ ~ret.raised
        /\ args.age < target_age /\ args.salary > 0) =>
            LET years == target_age - args.age
            IN  /\ Len(ret.baseline) = years + 1
                /\ Len(ret.with_help) = years + 1
                /\ \A k \in 0 .. years - 1 :
                    /\ ret.baseline[k + 2]
                         = ProjectStep(ret.baseline[k + 1],
                                       CalculatorContribution(k), r_no_help)
                    /\ ret.with_help[k + 2]
                         = ProjectStep(ret.with_help[k + 1],
                                       CalculatorContribution(k), r_help)

C14_Witness ==
    /\ Done("compute_projection_one_line")
    /\ args.age = args.cfg.target_age - MaxYears /\ args.salary > 0
    /\ args.cfg.salary_growth_rate_pct > 0
    /\ args.cfg.employee_contrib_rate_pct > 0
    /\ args.model_return > 0
    /\ Len(ret.value) = MaxYears + 1
    /\ AnnualContribution(MaxYears - 1) > AnnualContribution(0)
    /\ AnnualContribution(MaxYears) > AnnualContribution(MaxYears - 1)
    /\ ret.value[MaxYears + 1]
         = OneLineStep(ret.value[MaxYears], AnnualContribution(MaxYears - 1))


\* The two timings of a deposit within its period.
ContributionTimings == {"END_OF_PERIOD", "BEGINNING_OF_PERIOD"}

\* sum_{i=lo}^{hi} c * g^i
RECURSIVE Installments(_, _, _, _)
Installments(c, g, lo, hi) ==
    IF lo > hi THEN 0
    ELSE Installments(c, g, lo, hi - 1) + MulDiv(c, Pow(g, hi))

\* The balance after n periods of factor g from the balance start with the
\* installment c in every period: a deposit after the growth of its period
\* grows through the periods that follow it (exponents 0..n-1), a deposit
\* before it grows through its own period too (exponents 1..n).
TimedYear(timing, start, c, g, n) ==
    MulDiv(start, Pow(g, n))
    + (IF timing = "END_OF_PERIOD"
       THEN Installments(c, g, 0, n - 1)
       ELSE Installments(c, g, 1, n))

\* Every period rounds the balance by less than one cent, compounded; two
\* cents a period bound the difference of two ways of computing one year.
TimingTolerance(n) == 2 * n

\* Every year of a finished projection follows the timing, in both engines.
YearsFollow(timing) ==
    /\ (Done("compute_projection_one_line")
        /\ args.age < args.cfg.target_age /\ args.salary > 0) =>
            LET per == args.cfg.contributions_per_year
                g == Scale + period_rate(args.model_return, per)
            IN  \A k \in 0 .. args.cfg.target_age - args.age - 1 :
                    Within(ret.value[k + 2],
                           TimedYear(timing, ret.value[k + 1],
                                     AnnualContribution(k) \div per, g, per),
                           TimingTolerance(per))
    /\ (Done("compute_projection") /\ ~ret.raised
        /\ args.age < target_age /\ args.salary > 0) =>
            \A k \in 0 .. target_age - args.age - 1 :
                /\ Within(ret.baseline[k + 2],
                          TimedYear(timing, ret.baseline[k + 1],
                                    CalculatorContribution(k) \div months,
                                    Root(Scale + r_no_help, months), months),
                          TimingTolerance(months))
                /\ Within(ret.with_help[k + 2],
                          TimedYear(timing, ret.with_help[k + 1],
                                    CalculatorContribution(k) \div months,
                                    Root(Scale + r_help, months), months),
                          TimingTolerance(months))

\* C15 as stated: the engines support both timings, so that a projection
\* follows the timing asked of it, whichever of the two it is.
C15_BothTimingsSupported == \A timing \in ContributionTimings : YearsFollow(timing)

\* C15: in both engines the installment of a period is added immediately
\* after the growth of that period (END_OF_PERIOD); neither engine has
\* another timing.
C15_DepositsAfterGrowth == YearsFollow("END_OF_PERIOD")

C15_Witness ==
    /\ Done("compute_projection_one_line")
    /\ args.age = args.cfg.target_age - MaxYears /\ args.salary > 0
    /\ args.model_return > 0
    /\ args.cfg.contributions_per_year = 26
    /\ LET per == args.cfg.contributions_per_year
           g == Scale + period_rate(args.model_return, per)
           c == AnnualContribution(0) \div per
       IN  /\ c > 0
           /\ Within(ret.value[2],
                     TimedYear("END_OF_PERIOD", ret.value[1], c, g, per),
                     TimingTolerance(per))
           /\ TimedYear("BEGINNING_OF_PERIOD", ret.value[1], c, g, per)
                - ret.value[2] > TimingTolerance(per)


\* C19: the decumulation frame of the Retirement Planner has the ages
\* retire_age + y for y = 0, 1, ... in order; no balance is below 0 and only
\* the last one can be 0; the frame ends at the first year whose balance is
\* not above 0 and otherwise at age horizon_max_age, never later; runout_age
\* is the last age exactly when the last balance is not above 0, and None
\* otherwise.
C19_DecumulationStopsAtRunout ==
    Done("planner") =>
        LET post == ret.df_post
            n == Len(post.Age)
        IN  /\ n >= 1 /\ Len(post.Balance) = n /\ Len(post.Spending) = n
            /\ \A y \in 1 .. n : post.Age[y] = args.retire_age + (y - 1)
            /\ \A y \in 1 .. n : post.Balance[y] >= 0
            /\ \A y \in 1 .. n - 1 : post.Balance[y] > 0
            /\ post.Age[n] <= 110
            /\ post.Balance[n] > 0 => post.Age[n] = 110
            /\ ret.runout_age = IF post.Balance[n] <= 0
                                THEN IntOf(post.Age[n]) ELSE None

C19_Witness ==
    /\ Done("planner")
    /\ args.exp_return > 0 /\ args.inflation > 0
    /\ LET post == ret.df_post
           n == Len(post.Age)
       IN  /\ n > 2
           /\ post.Age[n] < 110
           /\ post.Balance[n] = 0
           /\ post.Balance[n - 1] > 0
           /\ post.Balance[n - 1] < post.Spending[n - 1]
           /\ ret.runout_age = IntOf(args.retire_age + n - 1)

\* C20: the accumulation frame of the Retirement Planner starts at the
\* current age with current_savings and ends at retire_age with
\* balance_at_retirement, which is also the first balance of the
\* decumulation frame, at an expected return of 0 and above 0.
C20_AccumulationMatchesSummary ==
    Done("planner") =>
        LET pre == ret.df_pre
            m == Len(pre.Age)
        IN  /\ m = args.retire_age - args.age + 1
            /\ Len(pre.Balance) = m
            /\ pre.Age[1] = args.age
            /\ pre.Balance[1] = args.current_savings
            /\ pre.Age[m] = args.retire_age
            /\ pre.Balance[m] = ret.balance_at_retirement
            /\ ret.df_post.Age[1] = args.retire_age
            /\ ret.df_post.Balance[1] = ret.balance_at_retirement

C20_Witness ==
    /\ Done("planner")
    /\ args.exp_return > 0
    /\ args.current_savings > 0 /\ args.monthly_contrib > 0
    /\ LET pre == ret.df_pre
           m == Len(pre.Age)
       IN  /\ m > 2
           /\ pre.Balance[1] = args.current_savings
           /\ pre.Balance[m] = ret.balance_at_retirement
           /\ ret.df_post.Balance[1] = ret.balance_at_retirement
           /\ ret.balance_at_retirement
                > args.current_savings + args.monthly_contrib * (12 * (m - 1))

====
